---- MODULE Spec2Model ----
(***************************************************************************)
(* Model of src/src/main.py: the retrying fetcher (retry_request), the     *)
(* record transformer (add_length, filter_data) and the upsert writer      *)
(* (upsert_data, create_table_if_not_exists) over a sqlite3 database.      *)
(*                                                                         *)
(* Three specifications share the module, one per component:               *)
(*   SpecRetry      retry_request, one action per loop iteration           *)
(*   SpecTransform  add_length followed by filter_data                     *)
(*   SpecUpsert     upsert_data, one action per statement of its body      *)
(***************************************************************************)
EXTENDS Integers, Sequences, FiniteSets, TLC

(***************************************************************************)
(* Bounds of the model.                                                    *)
(***************************************************************************)
MaxRetries == 3      \* num_retries ranges over 0..MaxRetries
MaxSleep == 2        \* starting_sleep_time ranges over None and 0..MaxSleep
MaxLen == 2          \* strings of the transformer's records have at most MaxLen characters
MaxBatch == 2        \* the transformer's batches hold at most MaxBatch records
MaxRows == 2         \* the writer's batches hold at most MaxRows records

(***************************************************************************)
(* State.  The three components share none: each has its own variables.    *)
(***************************************************************************)
\* retry_request
VARIABLES
    rq_pc,                \* "idle" (no call yet), "loop" (inside the for), "done"
    num_retries,          \* argument
    success_list,         \* argument
    starting_sleep_time,  \* argument
    seconds,              \* local: the current pause
    attempt,              \* number of loop iterations begun (the for's counter)
    response,             \* local: status code of the bound response, Unbound if none
    outcome,              \* "none", "returned" or "raised"
    error,                \* exception class raised, "" if none
    log                   \* what the call did so far: its GETs and its sleeps, in order

retryVars == <<rq_pc, num_retries, success_list, starting_sleep_time, seconds,
               attempt, response, outcome, error, log>>

\* add_length and filter_data
VARIABLES
    t_pc,       \* "start", "added" (add_length returned), "filtered", "failed"
    t_input,    \* the batch as it was handed to add_length
    t_data,     \* the batch, whose dicts add_length changes in place
    t_key,      \* add_length's key
    t_min,      \* filter_data's min_length
    t_result,   \* filter_data's return value
    t_error     \* exception class raised, "" if none

transformVars == <<t_pc, t_input, t_data, t_key, t_min, t_result, t_error>>

\* upsert_data and the database
VARIABLES
    u_pc,          \* "idle", "connect", "create", "prepare", "rows", "commit", "close", "done"
    data,          \* argument
    merge_column,  \* argument
    conn,          \* the call's connection: "none", "open" or "closed"
    in_tx,         \* the call's connection has an open transaction
    holds_lock,    \* the call's connection holds the database's write lock
    next_row,      \* executemany: index of the next parameter tuple
    pending,       \* the rows as the call's connection sees them
    table_exists,  \* committed: the table exists
    rows,          \* committed: the table's rows, each <<id, title, body, title_length>>
    leaked,        \* a connection of an earlier call is still open
    leaked_lock,   \* one of them holds the write lock (an unfinished transaction)
    u_outcome,     \* "none", "returned" or "raised"
    u_error,       \* exception class raised, "" if none
    pre_exists,    \* table_exists when the call began
    pre_rows,      \* rows when the call began
    written,       \* the row stored for each record executed so far
    repeat         \* the call repeats the call before it, which had returned

upsertVars == <<u_pc, data, merge_column, conn, in_tx, holds_lock, next_row, pending,
                table_exists, rows, leaked, leaked_lock, u_outcome, u_error,
                pre_exists, pre_rows, written, repeat>>

\* The three components share no state: an action of one leaves the other
\* two alone.
RetryOnly == UNCHANGED <<transformVars, upsertVars>>
TransformOnly == UNCHANGED <<retryVars, upsertVars>>
UpsertOnly == UNCHANGED <<retryVars, transformVars>>

(***************************************************************************)
(* PART 1 -- retry_request                                                 *)
(***************************************************************************)

\* Python's None and a number, for starting_sleep_time / seconds.  Durations
\* are counted in a fixed unit; doubling a binary float is exact, so integer
\* arithmetic gives the same sequence of pauses.
NoTime == [isNone |-> TRUE, t |-> 0]
Time(x) == [isNone |-> FALSE, t |-> x]

SleepTimes == {NoTime} \cup {Time(x) : x \in 0..MaxSleep}

\* Status codes a server may answer with; ConnErr stands for requests.get
\* raising requests.exceptions.ConnectionError (no response object).
StatusCodes == {200, 201, 500}
ConnErr == 0
SuccessLists == {{200}, {200, 201}}

\* `response` before the first assignment of line 41.
Unbound == -1

GetEvent(status) == [op |-> "get", v |-> status]
SleepEvent(s) == [op |-> "sleep", v |-> s]

\* time.sleep(seconds), line 44: None is not a number.
SleepRaises(s) == s.isNone

\* A slip of line 47: the pause grows by one unit instead of doubling.
Incremented(s) == Time(s.t + 1)

\* seconds *= 2, line 47.
Doubled(s) == Time(s.t * 2)

RetryInit ==
    /\ rq_pc = "idle"
    /\ num_retries = 0
    /\ success_list = {200}
    /\ starting_sleep_time = Time(0)
    /\ seconds = Time(0)
    /\ attempt = 0
    /\ response = Unbound
    /\ outcome = "none"
    /\ error = ""
    /\ log = <<>>

\* A call of retry_request(num_retries=n, success_list=sl,
\* starting_sleep_time=d): line 38 binds seconds, nothing else is bound.
RetryCall(n, sl, d) ==
    /\ rq_pc \in {"idle", "done"}
    /\ rq_pc' = "loop"
    /\ num_retries' = n
    /\ success_list' = sl
    /\ starting_sleep_time' = d
    /\ seconds' = d
    /\ attempt' = 0
    /\ response' = Unbound
    /\ outcome' = "none"
    /\ error' = ""
    /\ log' = <<>>
    /\ RetryOnly

\* One iteration in which requests.get raises ConnectionError: lines 41,
\* 45-46.  The except clause re-raises; nothing is slept.
AttemptConnectionError ==
    /\ rq_pc = "loop"
    /\ attempt < num_retries
    /\ attempt' = attempt + 1
    /\ log' = Append(log, GetEvent(ConnErr))
    /\ outcome' = "raised"
    /\ error' = "ConnectionError"
    /\ rq_pc' = "done"
    /\ UNCHANGED <<num_retries, success_list, starting_sleep_time, seconds, response>>
    /\ RetryOnly

\* A slip of lines 42-44: the successful response is bound but the call
\* sleeps and goes round the loop again instead of returning.
AttemptSuccessGoesOn(status) ==
    /\ rq_pc = "loop"
    /\ attempt < num_retries
    /\ status \in success_list
    /\ ~seconds.isNone
    /\ attempt' = attempt + 1
    /\ response' = status
    /\ log' = Append(Append(log, GetEvent(status)), SleepEvent(seconds.t))
    /\ seconds' = Time(seconds.t * 2)
    /\ UNCHANGED <<num_retries, success_list, starting_sleep_time, outcome, error, rq_pc>>
    /\ RetryOnly

\* One iteration whose response is in success_list: lines 41-43.
AttemptSuccess(status) ==
    /\ rq_pc = "loop"
    /\ attempt < num_retries
    /\ status \in success_list
    /\ attempt' = attempt + 1
    /\ response' = status
    /\ log' = Append(log, GetEvent(status))
    /\ outcome' = "returned"
    /\ rq_pc' = "done"
    /\ UNCHANGED <<num_retries, success_list, starting_sleep_time, seconds, error>>
    /\ RetryOnly

\* One iteration whose response is not in success_list: lines 41-42, 44, 47.
\* time.sleep(None) and None * 2 raise TypeError, which no clause catches.
AttemptFailure(status) ==
    /\ rq_pc = "loop"
    /\ attempt < num_retries
    /\ status \notin success_list
    /\ attempt' = attempt + 1
    /\ response' = status
    /\ IF SleepRaises(seconds)
         THEN /\ log' = Append(log, GetEvent(status))
              /\ outcome' = "raised"
              /\ error' = "TypeError"
              /\ rq_pc' = "done"
              /\ UNCHANGED seconds
         ELSE /\ log' = Append(Append(log, GetEvent(status)), SleepEvent(seconds.t))
              /\ seconds' = Doubled(seconds)
              /\ UNCHANGED <<outcome, error, rq_pc>>
    /\ UNCHANGED <<num_retries, success_list, starting_sleep_time>>
    /\ RetryOnly

\* The loop is exhausted: line 49.  With no iteration at all `response` was
\* never bound and the return raises UnboundLocalError.
RetryExhausted ==
    /\ rq_pc = "loop"
    /\ attempt >= num_retries
    /\ rq_pc' = "done"
    /\ IF response = Unbound
         THEN outcome' = "raised" /\ error' = "UnboundLocalError"
         ELSE outcome' = "returned" /\ UNCHANGED error
    /\ UNCHANGED <<num_retries, success_list, starting_sleep_time, seconds,
                   attempt, response, log>>
    /\ RetryOnly

RetryNext ==
    \/ \E n \in 0..MaxRetries, sl \in SuccessLists, d \in SleepTimes : RetryCall(n, sl, d)
    \/ AttemptConnectionError
    \/ \E status \in StatusCodes : AttemptSuccess(status)
    \/ \E status \in StatusCodes : AttemptFailure(status)
    \/ RetryExhausted

(***************************************************************************)
(* Python values and dicts, shared by the transformer and the writer.      *)
(* A value is None, an int or a str (a sequence of characters); a dict is    *)
(* the sequence of its items in insertion order, which is the order of     *)
(* keys() and values().                                                    *)
(***************************************************************************)
PyNone == [kind |-> "none", n |-> 0, s |-> <<>>]
PyInt(i) == [kind |-> "int", n |-> i, s |-> <<>>]
PyStr(chars) == [kind |-> "str", n |-> 0, s |-> chars]

Item(key, value) == [k |-> key, v |-> value]

HasKey(d, key) == \E j \in 1..Len(d) : d[j].k = key

\* d[key], for a key of d.
GetItem(d, key) == d[CHOOSE j \in 1..Len(d) : d[j].k = key].v

\* d.get(key): None for a missing key.
DictGet(d, key) == IF HasKey(d, key) THEN GetItem(d, key) ELSE PyNone

\* d[key] = value: an existing key keeps its place, a new one goes last.
SetItem(d, key, value) ==
    IF HasKey(d, key)
      THEN [j \in 1..Len(d) |-> IF d[j].k = key THEN Item(key, value) ELSE d[j]]
      ELSE Append(d, Item(key, value))

DictKeys(d) == [j \in 1..Len(d) |-> d[j].k]
DictValues(d) == [j \in 1..Len(d) |-> d[j].v]

(***************************************************************************)
(* PART 2 -- add_length and filter_data                                    *)
(***************************************************************************)

\* f"{key}_length", line 101.
LengthKey(key) == key \o "_length"

\* len(i[key]), line 101, as [err, v]: KeyError for a missing key, TypeError
\* for a value that has no len().
LenOf(rec, key) ==
    IF ~HasKey(rec, key) THEN [err |-> "KeyError", v |-> PyNone]
    ELSE IF GetItem(rec, key).kind # "str" THEN [err |-> "TypeError", v |-> PyNone]
    ELSE [err |-> "", v |-> PyInt(Len(GetItem(rec, key).s))]

\* The loop of add_length from record j on, lines 100-101, as [err, data]:
\* the records before a failing one keep their new field.
RECURSIVE AddLengthFrom(_, _, _)
AddLengthFrom(batch, key, j) ==
    IF j > Len(batch) THEN [err |-> "", data |-> batch]
    ELSE LET l == LenOf(batch[j], key) IN
         IF l.err # "" THEN [err |-> l.err, data |-> batch]
         ELSE AddLengthFrom([batch EXCEPT ![j] = SetItem(batch[j], LengthKey(key), l.v)],
                            key, j + 1)

add_length(batch, key) == AddLengthFrom(batch, key, 1)

\* A slip of line 118: > for >=.
MoreThan(value, min_length) == value.n > min_length

\* i.get(key) >= min_length, line 118, for an int value.
AtLeast(value, min_length) == value.n >= min_length

\* The loop of filter_data from record j on, lines 116-121, as [err, out]:
\* comparing None or a str with an int raises TypeError.
RECURSIVE FilterFrom(_, _, _, _, _)
FilterFrom(batch, key, min_length, j, filtered_data) ==
    IF j > Len(batch) THEN [err |-> "", out |-> filtered_data]
    ELSE IF DictGet(batch[j], key).kind # "int" THEN [err |-> "TypeError", out |-> <<>>]
    ELSE FilterFrom(batch, key, min_length, j + 1,
                    IF AtLeast(DictGet(batch[j], key), min_length)
                      THEN Append(filtered_data, batch[j])
                      ELSE filtered_data)

filter_data(batch, key, min_length) == FilterFrom(batch, key, min_length, 1, <<>>)

\* Inputs of the transformer.
Chars == {"a", "b"}
RECURSIVE StringsOfLen(_)
StringsOfLen(l) ==
    IF l = 0 THEN {<<>>}
    ELSE {Append(w, c) : w \in StringsOfLen(l - 1), c \in Chars}
Strings == UNION {StringsOfLen(l) : l \in 0..MaxLen}

TransformRecords ==
    {<<Item("id", PyInt(1)), Item("title", PyStr(w))>> : w \in Strings}
    \cup {<<Item("id", PyInt(1))>>,                                 \* no title
          <<Item("id", PyInt(1)), Item("title", PyNone)>>,             \* title is None
          <<Item("title_length", PyInt(9)), Item("title", PyStr(<<"a">>))>>}  \* stale length

RECURSIVE BatchesOfLen(_, _)
BatchesOfLen(records, l) ==
    IF l = 0 THEN {<<>>}
    ELSE {Append(b, r) : b \in BatchesOfLen(records, l - 1), r \in records}
BatchesUpTo(records, l) == UNION {BatchesOfLen(records, j) : j \in 0..l}

TransformKeys == {"title", "id"}

TransformBatches == BatchesUpTo(TransformRecords, MaxBatch)

\* The transformer before any of its functions ran, for the other two
\* specifications.
TransformQuiet ==
    /\ t_pc = "start"
    /\ t_input = <<>>
    /\ t_data = <<>>
    /\ t_key = "title"
    /\ t_min = 0
    /\ t_result = <<>>
    /\ t_error = ""

TransformInit ==
    /\ t_pc = "start"
    /\ t_input \in TransformBatches
    /\ t_data = t_input
    /\ t_key \in TransformKeys
    /\ t_min \in 0..(MaxLen + 1)
    /\ t_result = <<>>
    /\ t_error = ""

\* add_length(data, key), lines 100-101.
AddLength ==
    /\ t_pc = "start"
    /\ LET r == add_length(t_data, t_key) IN
         /\ t_data' = r.data
         /\ t_error' = r.err
         /\ t_pc' = IF r.err = "" THEN "added" ELSE "failed"
    /\ UNCHANGED <<t_input, t_key, t_min, t_result>>
    /\ TransformOnly

\* filter_data(data, key + "_length", min_length), lines 116-121.
FilterData ==
    /\ t_pc = "added"
    /\ LET r == filter_data(t_data, LengthKey(t_key), t_min) IN
         /\ t_result' = r.out
         /\ t_error' = r.err
         /\ t_pc' = IF r.err = "" THEN "filtered" ELSE "failed"
    /\ UNCHANGED <<t_input, t_data, t_key, t_min>>
    /\ TransformOnly

TransformNext ==
    \/ AddLength
    \/ FilterData

(***************************************************************************)
(* PART 3 -- upsert_data over sqlite3                                      *)
(*                                                                         *)
(* The database holds the committed state: whether the table exists and    *)
(* its rows in rowid order.  A connection works on `pending`, its own view *)
(* inside the transaction that sqlite3 opens before the first INSERT; the  *)
(* committed rows change only when the connection commits.                 *)
(***************************************************************************)

\* The table of create_table_if_not_exists, lines 147-150: column names,
\* type affinities (INT: INTEGER, VARCHAR: TEXT) and NOT NULL constraints.
Columns == <<"id", "title", "body", "title_length">>
Affinity == <<"INTEGER", "TEXT", "TEXT", "INTEGER">>
NotNull == <<TRUE, TRUE, FALSE, TRUE>>
IsColumn(name) == \E c \in 1..Len(Columns) : Columns[c] = name

\* Decimal text of a natural number, and back.
Digits == <<"0", "1", "2", "3", "4", "5", "6", "7", "8", "9">>
RECURSIVE Decimal(_)
Decimal(i) ==
    IF i < 10 THEN <<Digits[i + 1]>>
    ELSE Append(Decimal(i \div 10), Digits[(i % 10) + 1])
IsDigit(ch) == \E i \in 1..10 : Digits[i] = ch
DigitValue(ch) == (CHOOSE i \in 1..10 : Digits[i] = ch) - 1
LooksInteger(chars) == Len(chars) > 0 /\ \A j \in 1..Len(chars) : IsDigit(chars[j])
RECURSIVE ToInteger(_)
ToInteger(chars) ==
    IF Len(chars) = 0 THEN 0
    ELSE 10 * ToInteger(SubSeq(chars, 1, Len(chars) - 1)) + DigitValue(chars[Len(chars)])

\* What sqlite stores for a bound value in a column of the given affinity:
\* a TEXT column turns a number into its decimal text, an INTEGER column
\* turns text that spells an integer into that integer.
ApplyAffinity(aff, value) ==
    IF aff = "TEXT" /\ value.kind = "int" THEN PyStr(Decimal(value.n))
    ELSE IF aff = "INTEGER" /\ value.kind = "str" /\ LooksInteger(value.s)
      THEN PyInt(ToInteger(value.s))
    ELSE value

\* columns = data[0].keys(), line 170.
columns == DictKeys(data[1])

\* placeholders, line 172: one "?" per key of the first record.
placeholders == Len(columns)

\* set_map, lines 173-178: the first record's keys but the merge column.
IsNotMergeColumn(name) == name # merge_column
set_map == SelectSeq(columns, IsNotMergeColumn)

\* values = [tuple(item.values()) for item in data], line 179: each record's
\* values in the order of that record's own keys.
values == [j \in 1..Len(data) |-> DictValues(data[j])]

\* INSERT INTO t VALUES (?, ...), lines 190-193: no column list, so the k-th
\* bound value goes to the table's k-th column.
RowOfParameters(params) == [c \in 1..Len(Columns) |-> ApplyAffinity(Affinity[c], params[c])]

\* Preparing the statement of lines 190-193 fails (OperationalError) when the
\* number of placeholders is not the number of columns, when set_map or the
\* conflict target names no column, or when the conflict target is not the
\* primary key.
PrepareFails ==
    \/ placeholders # Len(Columns)
    \/ ~IsColumn(merge_column)
    \/ \E j \in 1..Len(set_map) : ~IsColumn(set_map[j])
    \/ merge_column # Columns[1]

ViolatesNotNull(row) == \E c \in 1..Len(Columns) : NotNull[c] /\ row[c].kind = "none"

IsInSetMap(name) == \E j \in 1..Len(set_map) : set_map[j] = name

\* ON CONFLICT(id) DO UPDATE SET c = excluded.c, ..., line 192: the row of the
\* same id takes the new row's value in every column of set_map.
UpdatedRow(old, new) == [c \in 1..Len(Columns) |-> IF IsInSetMap(Columns[c]) THEN new[c] ELSE old[c]]

\* A slip of lines 190-193: the ON CONFLICT clause has no effect and every
\* record is inserted as a new row.
InsertRow(table, row) == Append(table, row)

\* One INSERT ... ON CONFLICT DO UPDATE on a table.
UpsertRow(table, row) ==
    IF \E j \in 1..Len(table) : table[j][1] = row[1]
      THEN [j \in 1..Len(table) |->
              IF table[j][1] = row[1] THEN UpdatedRow(table[j], row) ELSE table[j]]
      ELSE Append(table, row)

\* A slip of lines 182-185: a connection in autocommit mode, where every
\* statement is committed as it ends.
AutoCommitted(committed, view) == view

\* The committed rows after a statement ran inside the connection's
\* transaction: connect_to_database leaves sqlite3's default transaction
\* handling on, so an INSERT is not committed by itself.
CommittedAfterStatement(committed, view) == committed

\* Inputs of the writer.
Post(i, title, body) ==
    <<Item("id", PyInt(i)), Item("title", PyStr(title)),
      Item("body", body), Item("title_length", PyInt(Len(title)))>>

UpsertRecords ==
    {Post(1, <<"a">>, PyStr(<<"b">>)), Post(1, <<"a", "b">>, PyNone),
     Post(2, <<"a">>, PyStr(<<"b">>)),
     \* title is None
     <<Item("id", PyInt(2)), Item("title", PyNone),
       Item("body", PyNone), Item("title_length", PyInt(0))>>,
     \* the four keys in another order
     <<Item("title", PyStr(<<"a", "b">>)), Item("id", PyInt(1)),
       Item("body", PyNone), Item("title_length", PyInt(2))>>,
     \* three keys only
     <<Item("id", PyInt(1)), Item("title", PyStr(<<"a">>)), Item("body", PyNone)>>}

MergeColumns == {"id", "title"}

UpsertBatches == BatchesUpTo(UpsertRecords, MaxRows)

UpsertInit ==
    /\ u_pc = "idle"
    /\ data = <<>>
    /\ merge_column = "id"
    /\ conn = "none"
    /\ in_tx = FALSE
    /\ holds_lock = FALSE
    /\ next_row = 0
    /\ pending = <<>>
    /\ table_exists = FALSE
    /\ rows = <<>>
    /\ leaked = FALSE
    /\ leaked_lock = FALSE
    /\ u_outcome = "none"
    /\ u_error = ""
    /\ pre_exists = FALSE
    /\ pre_rows = <<>>
    /\ written = <<>>
    /\ repeat = FALSE

\* The call ends by raising: nothing after the failing statement runs, in
\* particular neither conn.commit() nor conn.close() (lines 197-198); the
\* except clause of lines 200-201 only re-raises.
Raise(exception) ==
    /\ u_pc' = "done"
    /\ u_outcome' = "raised"
    /\ u_error' = exception

\* upsert_data(data, table_name, merge_column) up to line 179.  An empty batch
\* raises IndexError at data[0].
Begin(batch, merge, again) ==
    /\ data' = batch
    /\ merge_column' = merge
    /\ repeat' = again
    /\ conn' = "none"
    /\ in_tx' = FALSE
    /\ holds_lock' = FALSE
    /\ next_row' = 0
    /\ pending' = rows
    /\ pre_exists' = table_exists
    /\ pre_rows' = rows
    /\ written' = <<>>
    /\ IF batch = <<>>
         THEN Raise("IndexError")
         ELSE u_pc' = "connect" /\ u_outcome' = "none" /\ u_error' = ""
    /\ UNCHANGED <<table_exists, rows, leaked, leaked_lock>>

\* A call of upsert_data.
UpsertCall(batch, merge) ==
    /\ u_pc = "idle"
    /\ Begin(batch, merge, FALSE)
    /\ UpsertOnly

\* The call that has just returned is made again with the same arguments.
UpsertAgain ==
    /\ u_pc = "done"
    /\ u_outcome = "returned"
    /\ Begin(data, merge_column, TRUE)
    /\ UpsertOnly

\* The caller goes on after the call returned or raised: the call's locals
\* are gone.  A connection it did not close stays open, with the write lock
\* if its transaction took it.
LeaveCall ==
    /\ u_pc = "done"
    /\ u_pc' = "idle"
    /\ leaked' = (leaked \/ conn = "open")
    /\ leaked_lock' = (leaked_lock \/ (conn = "open" /\ holds_lock))
    /\ data' = <<>>
    /\ merge_column' = "id"
    /\ conn' = "none"
    /\ in_tx' = FALSE
    /\ holds_lock' = FALSE
    /\ next_row' = 0
    /\ pending' = <<>>
    /\ u_outcome' = "none"
    /\ u_error' = ""
    /\ pre_exists' = FALSE
    /\ pre_rows' = <<>>
    /\ written' = <<>>
    /\ repeat' = FALSE
    /\ UNCHANGED <<table_exists, rows>>
    /\ UpsertOnly

\* conn = connect_to_database(...); cursor = conn.cursor(), lines 182-185.
Connect ==
    /\ u_pc = "connect"
    /\ conn' = "open"
    /\ u_pc' = "create"
    /\ UNCHANGED <<data, merge_column, in_tx, holds_lock, next_row, pending, table_exists,
                   rows, leaked, leaked_lock, u_outcome, u_error, pre_exists, pre_rows,
                   written, repeat>>
    /\ UpsertOnly

\* create_table_if_not_exists, lines 143-154.  CREATE TABLE runs outside any
\* transaction (sqlite3 opens one only before INSERT, UPDATE, DELETE and
\* REPLACE), so a table it creates is committed at once; it needs the write
\* lock for that.  On an existing table it does nothing.
CreateTable ==
    /\ u_pc = "create"
    /\ IF table_exists
         THEN /\ u_pc' = "prepare"
              /\ UNCHANGED <<table_exists, u_outcome, u_error>>
         ELSE IF leaked_lock
           THEN Raise("OperationalError") /\ UNCHANGED table_exists
           ELSE /\ table_exists' = TRUE
                /\ u_pc' = "prepare"
                /\ UNCHANGED <<u_outcome, u_error>>
    /\ UNCHANGED <<data, merge_column, conn, in_tx, holds_lock, next_row, pending, rows,
                   leaked, leaked_lock, pre_exists, pre_rows, written, repeat>>
    /\ UpsertOnly

\* cursor.executemany, line 194, first part: the statement is prepared, and
\* sqlite3 begins a transaction before running it.
Prepare ==
    /\ u_pc = "prepare"
    /\ IF PrepareFails
         THEN Raise("OperationalError") /\ UNCHANGED <<in_tx, next_row>>
         ELSE /\ u_pc' = "rows"
              /\ in_tx' = TRUE
              /\ next_row' = 1
              /\ UNCHANGED <<u_outcome, u_error>>
    /\ UNCHANGED <<data, merge_column, conn, holds_lock, pending, table_exists, rows,
                   leaked, leaked_lock, pre_exists, pre_rows, written, repeat>>
    /\ UpsertOnly

\* cursor.executemany, line 194, one parameter tuple: bind it
\* (ProgrammingError when it has not one value per placeholder), take the
\* write lock (OperationalError "database is locked" while another connection
\* holds it), check NOT NULL (IntegrityError), insert or update.  A failing
\* statement changes no row; the rows of the statements before it stay in the
\* open transaction.
ExecuteRow ==
    /\ u_pc = "rows"
    /\ LET params == values[next_row]
           row == RowOfParameters(params)
       IN IF Len(params) # placeholders
            THEN Raise("ProgrammingError") /\ UNCHANGED <<holds_lock, pending, written, next_row, rows>>
          ELSE IF ~holds_lock /\ leaked_lock
            THEN Raise("OperationalError") /\ UNCHANGED <<holds_lock, pending, written, next_row, rows>>
          ELSE IF ViolatesNotNull(row)
            THEN Raise("IntegrityError") /\ holds_lock' = TRUE
                 /\ UNCHANGED <<pending, written, next_row, rows>>
          ELSE /\ holds_lock' = TRUE
               /\ pending' = UpsertRow(pending, row)
               /\ rows' = CommittedAfterStatement(rows, pending')
               /\ written' = Append(written, row)
               /\ next_row' = next_row + 1
               /\ u_pc' = IF next_row = Len(values) THEN "commit" ELSE "rows"
               /\ UNCHANGED <<u_outcome, u_error>>
    /\ UNCHANGED <<data, merge_column, conn, in_tx, table_exists, leaked, leaked_lock,
                   pre_exists, pre_rows, repeat>>
    /\ UpsertOnly

\* conn.commit(), line 197: the transaction's rows become the committed rows.
Commit ==
    /\ u_pc = "commit"
    /\ rows' = pending
    /\ in_tx' = FALSE
    /\ holds_lock' = FALSE
    /\ u_pc' = "close"
    /\ UNCHANGED <<data, merge_column, conn, next_row, pending, table_exists, leaked,
                   leaked_lock, u_outcome, u_error, pre_exists, pre_rows, written, repeat>>
    /\ UpsertOnly

\* conn.close(), line 198, and the return.
Close ==
    /\ u_pc = "close"
    /\ conn' = "closed"
    /\ u_pc' = "done"
    /\ u_outcome' = "returned"
    /\ UNCHANGED <<data, merge_column, in_tx, holds_lock, next_row, pending, table_exists,
                   rows, leaked, leaked_lock, u_error, pre_exists, pre_rows, written, repeat>>
    /\ UpsertOnly

\* The storage fails (unable to open the file, disk I/O error, disk full) in
\* sqlite3.connect, CREATE TABLE, an INSERT or the commit: sqlite3 raises
\* OperationalError, lines 153-154 and 200-201 re-raise it.
StorageError ==
    /\ u_pc \in {"connect", "create", "rows", "commit"}
    /\ Raise("OperationalError")
    /\ UNCHANGED <<data, merge_column, conn, in_tx, holds_lock, next_row, pending,
                   table_exists, rows, leaked, leaked_lock, pre_exists, pre_rows,
                   written, repeat>>
    /\ UpsertOnly

\* The interpreter reclaims the connections that earlier calls left open:
\* sqlite3 closes each, which rolls its unfinished transaction back and frees
\* the lock.  Only whether this happens before the next call's first INSERT
\* matters, so it is taken between calls.
Collect ==
    /\ u_pc = "idle"
    /\ leaked
    /\ leaked' = FALSE
    /\ leaked_lock' = FALSE
    /\ UNCHANGED <<u_pc, data, merge_column, conn, in_tx, holds_lock, next_row, pending,
                   table_exists, rows, u_outcome, u_error, pre_exists, pre_rows,
                   written, repeat>>
    /\ UpsertOnly

UpsertNext ==
    \/ \E batch \in UpsertBatches, merge \in MergeColumns :
          UpsertCall(batch, merge)
    \/ UpsertAgain
    \/ LeaveCall
    \/ Connect
    \/ CreateTable
    \/ Prepare
    \/ ExecuteRow
    \/ Commit
    \/ Close
    \/ StorageError
    \/ Collect

(***************************************************************************)
(* What a call did, read off its log.                                      *)
(***************************************************************************)
IsGet(e) == e.op = "get"
IsSleep(e) == e.op = "sleep"
Gets == SelectSeq(log, IsGet)        \* the requests issued, in order
Sleeps == SelectSeq(log, IsSleep)    \* the pauses taken, in order
Succeeded(status) == status # ConnErr /\ status \in success_list
Unsuccessful(status) == status # ConnErr /\ status \notin success_list

RECURSIVE Pow2(_)
Pow2(k) == IF k = 0 THEN 1 ELSE 2 * Pow2(k - 1)

\* C1 (as claimed): with num_retries >= 1 and only unsuccessful status codes
\* answered, a finished call has issued exactly num_retries requests, has
\* returned without raising, and returns the last response.
C1_AllFailReturnsLast ==
    (/\ rq_pc = "done"
     /\ num_retries >= 1
     /\ \A k \in 1..Len(Gets) : Unsuccessful(Gets[k].v))
    => /\ Len(Gets) = num_retries
       /\ outcome = "returned"
       /\ response = Gets[Len(Gets)].v

\* C2: a request answered with a status of success_list is the last thing the
\* call does: it is the last request, nothing (no sleep, no request) follows
\* it in the log, and the call has returned that response.
C2_SuccessReturnsAtOnce ==
    \A k \in 1..Len(Gets) :
        Succeeded(Gets[k].v)
        => /\ k = Len(Gets)
           /\ k <= num_retries
           /\ log[Len(log)] = Gets[k]
           /\ \A j \in 1..(k - 1) : ~Succeeded(Gets[j].v)
           /\ rq_pc = "done"
           /\ outcome = "returned"
           /\ response = Gets[k].v
           /\ response \in success_list

\* A call that succeeded on its third request after two unsuccessful ones.
C2_Witness ==
    /\ rq_pc = "done"
    /\ Len(Gets) = 3
    /\ Succeeded(Gets[3].v)
    /\ Len(Sleeps) = 2
    /\ num_retries = 3

\* C3 (as claimed): a connectivity error on attempt k ends the call at once
\* (raised, no further request, no sleep after it), whereas an unsuccessful
\* status on attempt k < num_retries is always followed by attempt k + 1.
C3_ConnErrorStopsStatusRetries ==
    /\ \A k \in 1..Len(Gets) :
          Gets[k].v = ConnErr
          => /\ k = Len(Gets)
             /\ log[Len(log)] = Gets[k]
             /\ rq_pc = "done"
             /\ outcome = "raised"
             /\ error = "ConnectionError"
    /\ rq_pc = "done"
       => \A k \in 1..Len(Gets) :
             (Unsuccessful(Gets[k].v) /\ k < num_retries) => k < Len(Gets)

\* C10: with a numeric starting delay d >= 0 the k-th pause of a call is
\* d * 2^(k-1), it follows the k-th unsuccessful response, and the call
\* never issues more than num_retries requests (also when d = 0).
C10_BackoffDoubles ==
    (~starting_sleep_time.isNone /\ starting_sleep_time.t >= 0)
    => /\ \A k \in 1..Len(Sleeps) :
             /\ Sleeps[k].v = starting_sleep_time.t * Pow2(k - 1)
             /\ k <= Len(Gets)
             /\ Unsuccessful(Gets[k].v)
       /\ Len(Gets) <= num_retries
       /\ Len(Sleeps) = Cardinality({k \in 1..Len(Gets) : Unsuccessful(Gets[k].v)})
       /\ rq_pc = "loop" => seconds.t = starting_sleep_time.t * Pow2(Len(Sleeps))

\* A call that paused 1, 2, 4 after three unsuccessful responses.
C10_Witness ==
    /\ starting_sleep_time = Time(1)
    /\ Len(Sleeps) = 3
    /\ Sleeps[3].v = 4

(***************************************************************************)
(* Claims about the transformer.                                           *)
(***************************************************************************)
AllHaveString(batch, key) ==
    \A j \in 1..Len(batch) : HasKey(batch[j], key) /\ GetItem(batch[j], key).kind = "str"

LongEnough(rec) == Len(GetItem(rec, t_key).s) >= t_min

\* C8: when every record of the batch has a string field f, add_length and
\* filter_data both return; every record then carries f_length = len(r[f])
\* with its other fields as they were, and the result is exactly the records
\* with len(r[f]) >= m in their original order, never longer than the batch.
C8_LengthThenFilter ==
    AllHaveString(t_input, t_key)
    => /\ t_pc # "failed"
       /\ t_pc \in {"added", "filtered"}
          => /\ Len(t_data) = Len(t_input)
             /\ \A j \in 1..Len(t_data) :
                   /\ GetItem(t_data[j], LengthKey(t_key))
                        = PyInt(Len(GetItem(t_input[j], t_key).s))
                   /\ \A key \in {"id", "title"} :
                         DictGet(t_data[j], key) = DictGet(t_input[j], key)
       /\ t_pc = "filtered"
          => /\ t_result = SelectSeq(t_data, LongEnough)
             /\ Len(t_result) <= Len(t_input)

\* A batch of two records of which filter_data kept the second only.
C8_Witness ==
    /\ t_pc = "filtered"
    /\ Len(t_input) = 2
    /\ Len(t_result) = 1
    /\ t_result[1] = t_data[2]
    /\ t_data[1] # t_data[2]
    /\ t_min = 2

(***************************************************************************)
(* Claims about the writer.                                                *)
(***************************************************************************)
Returned == u_pc = "done" /\ u_outcome = "returned"
Raised == u_pc = "done" /\ u_outcome = "raised"

\* The row that holds each field of a record in the column of the same name.
RowByName(rec) == [c \in 1..Len(Columns) |-> DictGet(rec, Columns[c])]

KeyOf(rec) == DictGet(rec, merge_column)

NoDuplicateKeys(table) ==
    \A a, b \in 1..Len(table) : table[a][1] = table[b][1] => a = b

HasRow(table, row) == \E a \in 1..Len(table) : table[a] = row

\* Record j is the last record of the batch with its key.
IsLatest(j) == \A k \in (j + 1)..Len(data) : KeyOf(data[k]) # KeyOf(data[j])

\* C4 (as claimed): a call that raised leaves the database as it was before
\* the call: the same rows, and the table existing or not as before.
C4_RaiseLeavesDatabaseAsBefore ==
    Raised => (rows = pre_rows /\ table_exists = pre_exists)

\* C4 (amended): until the call's single commit the committed rows are those
\* of before the call, so a call that raised has committed no row; the
\* table itself may have been created, and is never dropped.
C4_NoRowBeforeCommit ==
    /\ u_pc \in {"connect", "create", "prepare", "rows", "commit"} => rows = pre_rows
    /\ Raised => rows = pre_rows
    /\ u_pc # "idle" /\ pre_exists => table_exists

\* A batch whose first record was inserted and whose second failed, on a
\* table that held a row already.
C4_Witness ==
    /\ Raised
    /\ u_error = "IntegrityError"
    /\ Len(written) = 1
    /\ pending # rows
    /\ Len(pre_rows) >= 1

\* C5 (as claimed): after a call that returned the table has one row per key
\* at most, the last record of the batch with a key is that key's row, field
\* by field, and the rows of the keys the batch does not name are untouched.
C5_OneRowPerKeyLatestWins ==
    Returned
    => /\ NoDuplicateKeys(rows)
       /\ \A j \in 1..Len(data) : IsLatest(j) => HasRow(rows, RowByName(data[j]))
       /\ \A a \in 1..Len(pre_rows) :
             (\A j \in 1..Len(data) : KeyOf(data[j]) # pre_rows[a][1])
             => HasRow(rows, pre_rows[a])

\* C6: a call that repeats the call before it, which had returned, leaves
\* the database as that call left it, at every step and at its end.
C6_SecondCallChangesNothing ==
    repeat => (rows = pre_rows /\ table_exists = pre_exists)

\* A repeated batch of two records with two keys, on top of an older row
\* that the batch updates.
C6_Witness ==
    /\ Returned
    /\ repeat
    /\ Len(data) = 2
    /\ KeyOf(data[1]) # KeyOf(data[2])
    /\ Len(rows) = 2
    /\ rows[1][1] = KeyOf(data[2])

\* C7 (as claimed): when the call has returned or raised, the connection it
\* opened is closed.
C7_ConnectionClosedAtExit ==
    u_pc = "done" => conn # "open"

\* C9 (as claimed): the row stored for each record of the batch holds each
\* field's value in the column of that name.
C9_ValuesGoToNamedColumns ==
    \A j \in 1..Len(written) : written[j] = RowByName(data[j])

allVars == <<retryVars, transformVars, upsertVars>>

InitRetry == RetryInit /\ TransformQuiet /\ UpsertInit
SpecRetry == InitRetry /\ [][RetryNext]_allVars

InitTransform == TransformInit /\ RetryInit /\ UpsertInit
SpecTransform == InitTransform /\ [][TransformNext]_allVars

InitUpsert == UpsertInit /\ RetryInit /\ TransformQuiet
SpecUpsert == InitUpsert /\ [][UpsertNext]_allVars

====
